---- MODULE Spec2Model ----
(***************************************************************************)
(* Model of the EXT-X-INDEPENDENT-SEGMENTS and EXT-X-START tags of         *)
(* hls_m3u8 (src/src/tags/media_or_master_playlist.rs).                    *)
(*                                                                         *)
(* Strings are sequences of one-character strings, so that starts_with,    *)
(* split_at, the attribute scanner and the number conversions are computed *)
(* character by character.  The tag code (fmt / from_str of both tags) is  *)
(* translated from the source file.  The attribute scanner                 *)
(* (attribute::AttributePairs), parse_yes_or_no and                        *)
(* types::SignedDecimalFloatingPoint are used by that file but are not     *)
(* part of it; they are modelled from sections 3, 4.1 and 4.2 of the       *)
(* specification.                                                          *)
(***************************************************************************)
EXTENDS Integers, Sequences, FiniteSets, TLC

VARIABLES pc, tag, head, frags, line, start_res, examined, indep_res,
          text, back, alt_frags, alt_res

vars == <<pc, tag, head, frags, line, start_res, examined, indep_res,
          text, back, alt_frags, alt_res>>

(***************************************************************************)
(* Bounds of the model.                                                    *)
(***************************************************************************)
\* largest number of comma separated fragments in an input attribute list
MaxPairs == 3
\* largest integer part of a time offset handed to the formatter
MaxInt == 12
\* largest number of fraction digits of a time offset handed to the formatter
MaxFracDigits == 2
\* largest number of digits on either side of the "." in an input number text
MaxTextDigits == 2

(***************************************************************************)
(* Characters and literals.                                                *)
(***************************************************************************)
DigitChars == <<"0", "1", "2", "3", "4", "5", "6", "7", "8", "9">>

IsDigit(c) == \E i \in 1..10 : DigitChars[i] = c

DigitVal(c) == (CHOOSE i \in 1..10 : DigitChars[i] = c) - 1

UpperChars ==
    {"A", "B", "C", "D", "E", "F", "G", "H", "I", "J", "K", "L", "M",
     "N", "O", "P", "Q", "R", "S", "T", "U", "V", "W", "X", "Y", "Z"}

\* NAME = [A-Z0-9-]+
IsNameChar(c) == c \in UpperChars \/ IsDigit(c) \/ c = "-"

ExtXIndependentSegments_PREFIX ==
    <<"#", "E", "X", "T", "-", "X", "-", "I", "N", "D", "E", "P", "E", "N",
      "D", "E", "N", "T", "-", "S", "E", "G", "M", "E", "N", "T", "S">>

ExtXStart_PREFIX ==
    <<"#", "E", "X", "T", "-", "X", "-", "S", "T", "A", "R", "T", ":">>

KEY_TIME_OFFSET == <<"T", "I", "M", "E", "-", "O", "F", "F", "S", "E", "T">>

KEY_PRECISE == <<"P", "R", "E", "C", "I", "S", "E">>

FMT_TIME_OFFSET ==
    <<"T", "I", "M", "E", "-", "O", "F", "F", "S", "E", "T", "=">>

FMT_PRECISE_YES ==
    <<",", "P", "R", "E", "C", "I", "S", "E", "=", "Y", "E", "S">>

YES == <<"Y", "E", "S">>

NO == <<"N", "O">>

(***************************************************************************)
(* str helpers.                                                            *)
(***************************************************************************)
\* str::starts_with
starts_with(s, p) ==
    /\ Len(s) >= Len(p)
    /\ \A i \in 1..Len(p) : s[i] = p[i]

\* str::split_at(n).1
split_at_1(s, n) == SubSeq(s, n + 1, Len(s))

(***************************************************************************)
(* Results.  ErrorKind has the single kind InvalidInput.                   *)
(***************************************************************************)
InvalidInput == [ok |-> FALSE, kind |-> "InvalidInput"]

Ok(v) == [ok |-> TRUE, value |-> v]

NoValue == [none |-> TRUE]

(***************************************************************************)
(* types::SignedDecimalFloatingPoint.  A value is a finite decimal number: *)
(* a sign, an integer part and the fraction digits without insignificant   *)
(* trailing zeros; zero has no sign.  Two values are equal iff they are    *)
(* the same number.                                                        *)
(***************************************************************************)
RECURSIVE DigitsToNat(_)
DigitsToNat(ds) ==
    IF ds = <<>> THEN 0
    ELSE 10 * DigitsToNat(SubSeq(ds, 1, Len(ds) - 1)) + DigitVal(ds[Len(ds)])

RECURSIVE NatToDigits(_)
NatToDigits(n) ==
    IF n < 10 THEN <<DigitChars[n + 1]>>
    ELSE NatToDigits(n \div 10) \o <<DigitChars[(n % 10) + 1]>>

RECURSIVE TrimTrailingZeros(_)
TrimTrailingZeros(ds) ==
    IF ds # <<>> /\ ds[Len(ds)] = 0
    THEN TrimTrailingZeros(SubSeq(ds, 1, Len(ds) - 1))
    ELSE ds

AllDigits(s) == \A i \in 1..Len(s) : IsDigit(s[i])

\* the number with the given sign, integer part and fraction digits
Decimal(neg, int, fracDigits) ==
    LET fr == TrimTrailingZeros(fracDigits)
    IN  [neg |-> neg /\ ~(int = 0 /\ fr = <<>>), int |-> int, frac |-> fr]

\* index of the first "." of s, or 0
DotIndex(s) ==
    IF \E i \in 1..Len(s) : s[i] = "."
    THEN CHOOSE i \in 1..Len(s) :
            s[i] = "." /\ \A j \in 1..(i - 1) : s[j] # "."
    ELSE 0

\* optional sign, one or more digits, optionally "." and one or more digits
SignedDecimalFloatingPoint_from_str(s) ==
    LET signed   == s # <<>> /\ s[1] \in {"+", "-"}
        body     == IF signed THEN Tail(s) ELSE s
        dot      == DotIndex(body)
        intPart  == IF dot = 0 THEN body ELSE SubSeq(body, 1, dot - 1)
        fracPart == IF dot = 0 THEN <<>> ELSE SubSeq(body, dot + 1, Len(body))
    IN  IF /\ intPart # <<>>
           /\ AllDigits(intPart)
           /\ dot # 0 => (fracPart # <<>> /\ AllDigits(fracPart))
        THEN Ok(Decimal(signed /\ s[1] = "-",
                        DigitsToNat(intPart),
                        [i \in 1..Len(fracPart) |-> DigitVal(fracPart[i])]))
        ELSE InvalidInput

\* Display: the canonical text of the number
SignedDecimalFloatingPoint_fmt(v) ==
    (IF v.neg THEN <<"-">> ELSE <<>>)
    \o NatToDigits(v.int)
    \o (IF v.frac = <<>> THEN <<>>
        ELSE <<".">> \o [i \in 1..Len(v.frac) |-> DigitChars[v.frac[i] + 1]])

(***************************************************************************)
(* parse_yes_or_no: exactly YES or NO, case-sensitive.                     *)
(***************************************************************************)
parse_yes_or_no(s) ==
    IF s = YES THEN Ok(TRUE)
    ELSE IF s = NO THEN Ok(FALSE)
    ELSE InvalidInput

(***************************************************************************)
(* attribute::AttributePairs: the scanner of NAME=VALUE pairs.             *)
(* An iterator is [input, more]: the unread input and whether a comma was  *)
(* just consumed (so that another pair has to follow).                     *)
(***************************************************************************)
AttributePairs_parse(input) == [input |-> input, more |-> FALSE]

\* index of the first "=" of s before which only name characters stand,
\* 0 if a character outside NAME comes first or there is no "="
NameEnd(s) ==
    IF \E i \in 1..Len(s) :
          s[i] = "=" /\ \A j \in 1..(i - 1) : IsNameChar(s[j])
    THEN CHOOSE i \in 1..Len(s) :
            s[i] = "=" /\ \A j \in 1..(i - 1) : IsNameChar(s[j])
    ELSE 0

\* TRUE iff position i of s is inside a double-quoted run
InQuote(s, i) == Cardinality({j \in 1..(i - 1) : s[j] = "\""}) % 2 = 1

\* index of the first comma of s outside double quotes, Len(s) + 1 if none
ValueEnd(s) ==
    IF \E i \in 1..Len(s) : s[i] = "," /\ ~InQuote(s, i)
    THEN CHOOSE i \in 1..Len(s) :
            /\ s[i] = "," /\ ~InQuote(s, i)
            /\ \A j \in 1..(i - 1) : ~(s[j] = "," /\ ~InQuote(s, j))
    ELSE Len(s) + 1

\* Iterator::next: [kind |-> "end"], [kind |-> "err"] or
\* [kind |-> "pair", key, value, it] with the advanced iterator
AttributePairs_next(it) ==
    LET s       == it.input
        nameEnd == NameEnd(s)
        rest    == SubSeq(s, nameEnd + 1, Len(s))
        valEnd  == ValueEnd(rest)
    IN  IF s = <<>>
        THEN IF it.more THEN [kind |-> "err"] ELSE [kind |-> "end"]
        ELSE IF nameEnd <= 1 THEN [kind |-> "err"]
        ELSE IF valEnd = 1 THEN [kind |-> "err"]
        ELSE [kind  |-> "pair",
              key   |-> SubSeq(s, 1, nameEnd - 1),
              value |-> SubSeq(rest, 1, valEnd - 1),
              it    |-> [input |-> SubSeq(rest, valEnd + 1, Len(rest)),
                         more  |-> valEnd <= Len(rest)]]

(***************************************************************************)
(* ExtXIndependentSegments.                                                *)
(***************************************************************************)
ExtXIndependentSegments == [marker |-> "ExtXIndependentSegments"]

\* impl fmt::Display for ExtXIndependentSegments
ExtXIndependentSegments_fmt(t) == ExtXIndependentSegments_PREFIX

\* variant: the input only has to begin with the literal
ExtXIndependentSegments_from_str_prefix(s) ==
    IF starts_with(s, ExtXIndependentSegments_PREFIX)
    THEN Ok(ExtXIndependentSegments)
    ELSE InvalidInput

\* impl FromStr for ExtXIndependentSegments
ExtXIndependentSegments_from_str(s) ==
    IF s = ExtXIndependentSegments_PREFIX
    THEN Ok(ExtXIndependentSegments)
    ELSE InvalidInput

(***************************************************************************)
(* ExtXStart.                                                              *)
(***************************************************************************)
\* ExtXStart::with_precise
ExtXStart_with_precise(time_offset, precise) ==
    [time_offset |-> time_offset, precise |-> precise]

\* ExtXStart::new
ExtXStart_new(time_offset) == ExtXStart_with_precise(time_offset, FALSE)

\* variant: the precise flag is not written
ExtXStart_fmt_drops_precise(t) ==
    ExtXStart_PREFIX
    \o FMT_TIME_OFFSET \o SignedDecimalFloatingPoint_fmt(t.time_offset)

\* variant: a false precise flag is written as PRECISE=NO
ExtXStart_fmt_writes_no(t) ==
    ExtXStart_PREFIX
    \o FMT_TIME_OFFSET \o SignedDecimalFloatingPoint_fmt(t.time_offset)
    \o (IF t.precise THEN FMT_PRECISE_YES
        ELSE <<",">> \o KEY_PRECISE \o <<"=">> \o NO)

\* variant: PRECISE is written before TIME-OFFSET
ExtXStart_fmt_precise_first(t) ==
    ExtXStart_PREFIX
    \o (IF t.precise THEN Tail(FMT_PRECISE_YES) \o <<",">> ELSE <<>>)
    \o FMT_TIME_OFFSET \o SignedDecimalFloatingPoint_fmt(t.time_offset)

\* impl fmt::Display for ExtXStart
ExtXStart_fmt(t) ==
    ExtXStart_PREFIX
    \o FMT_TIME_OFFSET \o SignedDecimalFloatingPoint_fmt(t.time_offset)
    \o (IF t.precise THEN FMT_PRECISE_YES ELSE <<>>)

\* the locals of from_str before the loop: time_offset = None, precise = false
ExtXStart_locals == [time_offset |-> NoValue, precise |-> FALSE]

\* variant: an unrecognized key is an error
ExtXStart_match_key_rejects_unknown(key, value, acc) ==
    IF key = KEY_TIME_OFFSET
    THEN LET r == SignedDecimalFloatingPoint_from_str(value)
         IN  IF r.ok THEN Ok([acc EXCEPT !.time_offset = r.value])
             ELSE InvalidInput
    ELSE IF key = KEY_PRECISE
    THEN LET r == parse_yes_or_no(value)
         IN  IF r.ok THEN Ok([acc EXCEPT !.precise = r.value])
             ELSE InvalidInput
    ELSE InvalidInput

\* variant: the TIME-OFFSET arm also resets precise
ExtXStart_match_key_resets_precise(key, value, acc) ==
    IF key = KEY_TIME_OFFSET
    THEN LET r == SignedDecimalFloatingPoint_from_str(value)
         IN  IF r.ok
             THEN Ok([acc EXCEPT !.time_offset = r.value, !.precise = FALSE])
             ELSE InvalidInput
    ELSE IF key = KEY_PRECISE
    THEN LET r == parse_yes_or_no(value)
         IN  IF r.ok THEN Ok([acc EXCEPT !.precise = r.value])
             ELSE InvalidInput
    ELSE Ok(acc)

\* variant: the PRECISE arm compares with YES and never fails
ExtXStart_match_key_lenient_precise(key, value, acc) ==
    IF key = KEY_TIME_OFFSET
    THEN LET r == SignedDecimalFloatingPoint_from_str(value)
         IN  IF r.ok THEN Ok([acc EXCEPT !.time_offset = r.value])
             ELSE InvalidInput
    ELSE IF key = KEY_PRECISE
    THEN Ok([acc EXCEPT !.precise = (value = YES)])
    ELSE Ok(acc)

\* variant: the first TIME-OFFSET is kept and a PRECISE=YES is never undone
ExtXStart_match_key_first_wins(key, value, acc) ==
    IF key = KEY_TIME_OFFSET
    THEN LET r == SignedDecimalFloatingPoint_from_str(value)
         IN  IF ~r.ok THEN InvalidInput
             ELSE IF acc.time_offset = NoValue
             THEN Ok([acc EXCEPT !.time_offset = r.value])
             ELSE Ok(acc)
    ELSE IF key = KEY_PRECISE
    THEN LET r == parse_yes_or_no(value)
         IN  IF r.ok THEN Ok([acc EXCEPT !.precise = acc.precise \/ r.value])
             ELSE InvalidInput
    ELSE Ok(acc)

\* the match on the attribute key: the locals after the arm, or the error
\* that the arm propagates
ExtXStart_match_key(key, value, acc) ==
    IF key = KEY_TIME_OFFSET
    THEN LET r == SignedDecimalFloatingPoint_from_str(value)
         IN  IF r.ok THEN Ok([acc EXCEPT !.time_offset = r.value])
             ELSE InvalidInput
    ELSE IF key = KEY_PRECISE
    THEN LET r == parse_yes_or_no(value)
         IN  IF r.ok THEN Ok([acc EXCEPT !.precise = r.value])
             ELSE InvalidInput
    ELSE Ok(acc)

\* the loop `for attr in attrs`: n counts the items taken from the scanner
RECURSIVE ExtXStart_for_attrs(_, _, _)
ExtXStart_for_attrs(it, acc, n) ==
    LET attr == AttributePairs_next(it)
    IN  IF attr.kind = "end" THEN [res |-> Ok(acc), examined |-> n]
        ELSE IF attr.kind = "err"
        THEN [res |-> InvalidInput, examined |-> n + 1]
        ELSE LET m == ExtXStart_match_key(attr.key, attr.value, acc)
             IN  IF m.ok THEN ExtXStart_for_attrs(attr.it, m.value, n + 1)
                 ELSE [res |-> InvalidInput, examined |-> n + 1]

\* variant: a missing time_offset defaults to zero
ExtXStart_finish_defaults(acc) ==
    IF acc.time_offset = NoValue
    THEN Ok(ExtXStart_with_precise(Decimal(FALSE, 0, <<>>), acc.precise))
    ELSE Ok(ExtXStart_with_precise(acc.time_offset, acc.precise))

\* track_assert_some!(time_offset) and the construction of the tag
ExtXStart_finish(acc) ==
    IF acc.time_offset = NoValue THEN InvalidInput
    ELSE Ok(ExtXStart_with_precise(acc.time_offset, acc.precise))

\* variant: the prefix is checked after the attributes have been scanned
ExtXStart_from_str_run_late_check(s) ==
    LET attrs == AttributePairs_parse(split_at_1(s, Len(ExtXStart_PREFIX)))
        loop  == ExtXStart_for_attrs(attrs, ExtXStart_locals, 0)
    IN  IF ~starts_with(s, ExtXStart_PREFIX) \/ ~loop.res.ok
        THEN [res |-> InvalidInput, examined |-> loop.examined]
        ELSE [res |-> ExtXStart_finish(loop.res.value),
              examined |-> loop.examined]

\* impl FromStr for ExtXStart, with the number of attributes it examined
ExtXStart_from_str_run(s) ==
    IF ~starts_with(s, ExtXStart_PREFIX)
    THEN [res |-> InvalidInput, examined |-> 0]
    ELSE LET attrs == AttributePairs_parse(
                          split_at_1(s, Len(ExtXStart_PREFIX)))
             loop  == ExtXStart_for_attrs(attrs, ExtXStart_locals, 0)
         IN  IF loop.res.ok
             THEN [res |-> ExtXStart_finish(loop.res.value),
                   examined |-> loop.examined]
             ELSE loop

ExtXStart_from_str(s) == ExtXStart_from_str_run(s).res

(***************************************************************************)
(* Inputs.                                                                 *)
(***************************************************************************)
Pair(name, value) == [name |-> name, value |-> value]

Raw(s) == [raw |-> s]

IsPair(f) == "name" \in DOMAIN f

\* the text of a fragment of an attribute list
Render(f) == IF IsPair(f) THEN f.name \o <<"=">> \o f.value ELSE f.raw

RECURSIVE Join(_)
Join(fs) ==
    IF fs = <<>> THEN <<>>
    ELSE IF Len(fs) = 1 THEN Render(fs[1])
    ELSE Render(fs[1]) \o <<",">> \o Join(Tail(fs))

TimeOffsetTexts ==
    { <<"-", "1", ".", "2", "3">>, <<"0">>, <<"+", "1", ".", "5", "0">>,
      <<"1", "e", "3">> }

PreciseTexts == { YES, NO, <<"y", "e", "s">> }

TimeOffsetPairs == { Pair(KEY_TIME_OFFSET, v) : v \in TimeOffsetTexts }

PrecisePairs == { Pair(KEY_PRECISE, v) : v \in PreciseTexts }

\* well-formed pairs with an unrecognized name
UnknownPairs ==
    { Pair(<<"F", "O", "O">>, <<"B", "A", "R">>),
      Pair(<<"X">>, <<"\"", "a", ",", "b", "\"">>) }

\* fragments that are not NAME=VALUE: no "=", empty, empty value, empty name
MalformedFrags ==
    { Raw(<<"F", "O", "O">>), Raw(<<>>), Raw(FMT_TIME_OFFSET),
      Raw(<<"=", "1">>) }

Fragments == TimeOffsetPairs \cup PrecisePairs \cup UnknownPairs
             \cup MalformedFrags

SeqsUpTo(S, n) == UNION { [1..k -> S] : k \in 0..n }

\* texts of the shape sign? digits ("." digits)?, canonical or not
DigitTexts == SeqsUpTo({"0", "1", "5"}, MaxTextDigits) \ {<<>>}

NumberTexts ==
    { sg \o ip \o fp :
        sg \in {<<>>, <<"-">>, <<"+">>},
        ip \in DigitTexts,
        fp \in {<<>>} \cup { <<".">> \o d : d \in DigitTexts } }

\* attribute lists in the order of the formatter, with any number text
OrderedLists ==
    { <<Pair(KEY_TIME_OFFSET, t)>> : t \in NumberTexts }
    \cup { <<Pair(KEY_TIME_OFFSET, t), p>> :
              t \in NumberTexts, p \in PrecisePairs }

FragSeqs == SeqsUpTo(Fragments, MaxPairs)

\* heads other than the EXT-X-START prefix
OtherHeads ==
    { <<>>,
      SubSeq(ExtXStart_PREFIX, 1, Len(ExtXStart_PREFIX) - 1),
      ExtXIndependentSegments_PREFIX,
      ExtXIndependentSegments_PREFIX \o <<":">>,
      ExtXIndependentSegments_PREFIX \o <<" ">>,
      SubSeq(ExtXIndependentSegments_PREFIX, 1,
             Len(ExtXIndependentSegments_PREFIX) - 1) }

\* time offsets handed to the constructors
FracSeqs ==
    { d \in SeqsUpTo(0..9, MaxFracDigits) : d = <<>> \/ d[Len(d)] # 0 }

TimeOffsets ==
    { Decimal(neg, int, fr) : neg \in BOOLEAN, int \in 0..MaxInt,
                              fr \in FracSeqs }

StartValues ==
    { ExtXStart_with_precise(t, p) : t \in TimeOffsets, p \in BOOLEAN }

Permutations_of(n) ==
    { p \in [1..n -> 1..n] : \A i, j \in 1..n : p[i] = p[j] => i = j }

Permute(fs, p) == [i \in 1..Len(fs) |-> fs[p[i]]]

WithoutUnknown(fs) == SelectSeq(fs, LAMBDA f : f \notin UnknownPairs)

(***************************************************************************)
(* The state machine: an input is drawn, the operations are applied.       *)
(***************************************************************************)
Init ==
    /\ \/ /\ pc = "line"
          /\ tag = NoValue
          /\ \/ head = ExtXStart_PREFIX /\ frags \in FragSeqs
             \/ head = ExtXStart_PREFIX /\ frags \in OrderedLists
             \/ head \in OtherHeads /\ frags \in SeqsUpTo(Fragments, 1)
       \/ /\ pc = "value"
          /\ tag \in StartValues \cup {ExtXIndependentSegments}
          /\ head = <<>>
          /\ frags = <<>>
    /\ line = head \o Join(frags)
    /\ start_res = NoValue
    /\ examined = 0
    /\ indep_res = NoValue
    /\ text = NoValue
    /\ back = NoValue
    /\ alt_frags = NoValue
    /\ alt_res = NoValue

\* line.parse::<ExtXStart>()
ParseStart ==
    /\ pc = "line"
    /\ start_res' = ExtXStart_from_str_run(line).res
    /\ examined' = ExtXStart_from_str_run(line).examined
    /\ pc' = "start"
    /\ UNCHANGED <<tag, head, frags, line, indep_res, text, back,
                   alt_frags, alt_res>>

\* the parsed ExtXStart .to_string()
FormatParsedStart ==
    /\ pc = "start"
    /\ start_res.ok
    /\ text' = ExtXStart_fmt(start_res.value)
    /\ pc' = "start_formatted"
    /\ UNCHANGED <<tag, head, frags, line, start_res, examined, indep_res,
                   back, alt_frags, alt_res>>

\* the same line without its unrecognized pairs .parse::<ExtXStart>()
ParseWithoutUnknown ==
    /\ pc = "start"
    /\ alt_frags' = WithoutUnknown(frags)
    /\ alt_res' = ExtXStart_from_str(head \o Join(alt_frags'))
    /\ pc' = "stripped"
    /\ UNCHANGED <<tag, head, frags, line, start_res, examined, indep_res,
                   text, back>>

\* the same line with its fragments reordered .parse::<ExtXStart>()
ParsePermuted ==
    /\ pc = "start"
    /\ \E p \in Permutations_of(Len(frags)) :
          /\ alt_frags' = Permute(frags, p)
          /\ alt_res' = ExtXStart_from_str(head \o Join(alt_frags'))
    /\ pc' = "permuted"
    /\ UNCHANGED <<tag, head, frags, line, start_res, examined, indep_res,
                   text, back>>

\* line.parse::<ExtXIndependentSegments>()
ParseIndependentSegments ==
    /\ pc = "line"
    /\ indep_res' = ExtXIndependentSegments_from_str(line)
    /\ pc' = "indep"
    /\ UNCHANGED <<tag, head, frags, line, start_res, examined, text, back,
                   alt_frags, alt_res>>

\* the parsed ExtXIndependentSegments .to_string()
FormatParsedIndependentSegments ==
    /\ pc = "indep"
    /\ indep_res.ok
    /\ text' = ExtXIndependentSegments_fmt(indep_res.value)
    /\ pc' = "indep_formatted"
    /\ UNCHANGED <<tag, head, frags, line, start_res, examined, indep_res,
                   back, alt_frags, alt_res>>

\* tag.to_string()
FormatTag ==
    /\ pc = "value"
    /\ text' = IF tag = ExtXIndependentSegments
               THEN ExtXIndependentSegments_fmt(tag)
               ELSE ExtXStart_fmt(tag)
    /\ pc' = "formatted"
    /\ UNCHANGED <<tag, head, frags, line, start_res, examined, indep_res,
                   back, alt_frags, alt_res>>

\* the formatted text .parse() as the type of the tag
ParseFormatted ==
    /\ pc = "formatted"
    /\ back' = IF tag = ExtXIndependentSegments
               THEN ExtXIndependentSegments_from_str(text)
               ELSE ExtXStart_from_str(text)
    /\ pc' = "reparsed"
    /\ UNCHANGED <<tag, head, frags, line, start_res, examined, indep_res,
                   text, alt_frags, alt_res>>

Next ==
    \/ ParseStart
    \/ FormatParsedStart
    \/ ParseWithoutUnknown
    \/ ParsePermuted
    \/ ParseIndependentSegments
    \/ FormatParsedIndependentSegments
    \/ FormatTag
    \/ ParseFormatted

Spec == Init /\ [][Next]_vars

(***************************************************************************)
(* Vocabulary of the properties.                                           *)
(***************************************************************************)
\* TRUE iff sub occurs in s
Contains(s, sub) ==
    \E i \in 0..(Len(s) - Len(sub)) :
        \A j \in 1..Len(sub) : s[i + j] = sub[j]

IsNamed(f, name) == IsPair(f) /\ f.name = name

\* the text is the one the formatter writes for its number: no "+", no
\* leading zero, no trailing fraction zero, no "." without fraction, no "-0"
IsCanonicalNumberText(t) ==
    LET neg  == t # <<>> /\ t[1] = "-"
        body == IF neg THEN Tail(t) ELSE t
        dot  == DotIndex(body)
        ip   == IF dot = 0 THEN body ELSE SubSeq(body, 1, dot - 1)
        fp   == IF dot = 0 THEN <<>> ELSE SubSeq(body, dot + 1, Len(body))
    IN  /\ ip # <<>> /\ AllDigits(ip)
        /\ Len(ip) = 1 \/ ip[1] # "0"
        /\ dot # 0 => (fp # <<>> /\ AllDigits(fp) /\ fp[Len(fp)] # "0")
        /\ ~(neg /\ ip = <<"0">> /\ dot = 0)

\* the line is in the form the formatters write
CanonicalLine ==
    \/ head = ExtXIndependentSegments_PREFIX /\ frags = <<>>
    \/ /\ head = ExtXStart_PREFIX
       /\ Len(frags) \in {1, 2}
       /\ IsNamed(frags[1], KEY_TIME_OFFSET)
       /\ IsCanonicalNumberText(frags[1].value)
       /\ Len(frags) = 2 => frags[2] = Pair(KEY_PRECISE, YES)

\* from_str of ExtXStart has been applied to line
StartParsed == pc \in {"start", "start_formatted", "stripped", "permuted"}

\* every fragment is a pair and no two pairs have the same name
DistinctPairs ==
    /\ \A i \in 1..Len(frags) : IsPair(frags[i])
    /\ \A i, j \in 1..Len(frags) : frags[i].name = frags[j].name => i = j

\* fragment f is a pair of a recognized key whose value is malformed
BadRecognized(f) ==
    \/ /\ IsNamed(f, KEY_TIME_OFFSET)
       /\ ~SignedDecimalFloatingPoint_from_str(f.value).ok
    \/ IsNamed(f, KEY_PRECISE) /\ f.value \notin {YES, NO}

\* every fragment is a well-formed pair with a valid value
AllValid ==
    \A i \in 1..Len(frags) : IsPair(frags[i]) /\ ~BadRecognized(frags[i])

\* the positions of the pairs with the given name
Positions(name) == { i \in 1..Len(frags) : IsNamed(frags[i], name) }

Last(S) == CHOOSE i \in S : \A j \in S : j <= i

(***************************************************************************)
(* Properties.                                                             *)
(***************************************************************************)
\* C1: parsing the text that formatting a tag value wrote (any ExtXStart
\* value, precise or not, and ExtXIndependentSegments) succeeds and gives a
\* value equal to the one that was formatted.
C1_FormatThenParse == pc = "reparsed" => back = Ok(tag)

C1_Witness ==
    /\ pc = "reparsed"
    /\ tag \in StartValues
    /\ tag.precise
    /\ tag.time_offset.neg
    /\ tag.time_offset.int >= 10
    /\ Len(tag.time_offset.frac) = 2
    /\ back.ok

\* C2: for a line in canonical form that the parser accepts, formatting the
\* parsed value gives the line back.
C2_ParseThenFormat ==
    (pc \in {"start_formatted", "indep_formatted"} /\ CanonicalLine)
        => text = line

C2_Witness ==
    /\ pc = "start_formatted"
    /\ CanonicalLine
    /\ Len(frags) = 2
    /\ frags[1].value[1] = "-"
    /\ Contains(frags[1].value, <<".">>)
    /\ text = line

\* C3: the outcome of parsing an EXT-X-START line is the outcome of parsing
\* the line without its well-formed pairs of unrecognized name.
C3_UnknownIgnored == pc = "stripped" => alt_res = start_res

C3_Witness ==
    /\ pc = "stripped"
    /\ Len(frags) = 3
    /\ frags[1] \in UnknownPairs
    /\ frags[3] \in UnknownPairs
    /\ frags[1] # frags[3]
    /\ start_res.ok
    /\ alt_res = start_res

\* C4: when the pairs of an EXT-X-START line have pairwise distinct names,
\* every permutation of the pairs parses to the same result.
C4_OrderIndependent ==
    (pc = "permuted" /\ DistinctPairs) => alt_res = start_res

C4_Witness ==
    /\ pc = "permuted"
    /\ DistinctPairs
    /\ Len(frags) = 3
    /\ IsNamed(frags[1], KEY_TIME_OFFSET)
    /\ IsNamed(alt_frags[1], KEY_PRECISE)
    /\ IsNamed(alt_frags[3], KEY_TIME_OFFSET)
    /\ start_res.ok
    /\ start_res.value.precise
    /\ alt_res = start_res

\* C5: an EXT-X-START line without a TIME-OFFSET pair fails with
\* InvalidInput whatever else it contains, also when nothing follows the
\* prefix; the time_offset of a parsed value is the value of a TIME-OFFSET
\* pair of the input.
C5_TimeOffsetRequired ==
    StartParsed =>
        /\ Positions(KEY_TIME_OFFSET) = {} => start_res = InvalidInput
        /\ start_res.ok =>
              \E i \in Positions(KEY_TIME_OFFSET) :
                  SignedDecimalFloatingPoint_from_str(frags[i].value)
                      = Ok(start_res.value.time_offset)

C5_Witness ==
    /\ StartParsed
    /\ head = ExtXStart_PREFIX
    /\ Len(frags) = 2
    /\ frags[1] = Pair(KEY_PRECISE, YES)
    /\ frags[2] \in UnknownPairs
    /\ start_res = InvalidInput

\* C6: an EXT-X-START line with a TIME-OFFSET pair whose value is not a
\* signed decimal float, or a PRECISE pair whose value is neither YES nor
\* NO, fails with InvalidInput wherever the pair stands and whatever
\* surrounds it; PRECISE=NO with a valid TIME-OFFSET gives precise = false.
C6_MalformedValueFails ==
    StartParsed =>
        /\ (\E i \in 1..Len(frags) : BadRecognized(frags[i]))
              => start_res = InvalidInput
        /\ ( /\ head = ExtXStart_PREFIX
             /\ Len(frags) = 2
             /\ AllValid
             /\ Positions(KEY_TIME_OFFSET) # {}
             /\ \E i \in 1..2 : frags[i] = Pair(KEY_PRECISE, NO) )
              => (start_res.ok /\ ~start_res.value.precise)

C6_Witness ==
    /\ StartParsed
    /\ head = ExtXStart_PREFIX
    /\ Len(frags) = 3
    /\ frags[1] = Pair(KEY_PRECISE, <<"y", "e", "s">>)
    /\ IsNamed(frags[2], KEY_TIME_OFFSET)
    /\ ~BadRecognized(frags[2])
    /\ frags[3] = Pair(KEY_PRECISE, YES)
    /\ start_res = InvalidInput

\* C7: parsing ExtXIndependentSegments succeeds exactly when the input is
\* the literal #EXT-X-INDEPENDENT-SEGMENTS, character for character, and
\* fails with InvalidInput for every other string.
C7_IndependentSegmentsExact ==
    pc \in {"indep", "indep_formatted"} =>
        IF /\ Len(line) = Len(ExtXIndependentSegments_PREFIX)
           /\ \A i \in 1..Len(line) :
                 line[i] = ExtXIndependentSegments_PREFIX[i]
        THEN indep_res = Ok(ExtXIndependentSegments)
        ELSE indep_res = InvalidInput

C7_Witness ==
    /\ pc = "indep"
    /\ head = ExtXIndependentSegments_PREFIX \o <<":">>
    /\ Len(frags) = 1
    /\ IsNamed(frags[1], KEY_TIME_OFFSET)
    /\ indep_res = InvalidInput

\* the ExtXStart value that was formatted into text, if any
Formatted ==
    IF pc = "start_formatted" THEN start_res.value
    ELSE IF pc \in {"formatted", "reparsed"} /\ tag \in StartValues THEN tag
    ELSE NoValue

\* C8: the text of an ExtXStart value is #EXT-X-START:TIME-OFFSET=<value>,
\* followed by ,PRECISE=YES iff precise is true; it never contains
\* PRECISE=NO, and every value can be formatted.
C8_FormatShape ==
    /\ Formatted # NoValue =>
          LET lead == ExtXStart_PREFIX \o FMT_TIME_OFFSET
              num  == SignedDecimalFloatingPoint_fmt(Formatted.time_offset)
              tail == SubSeq(text, Len(lead) + Len(num) + 1, Len(text))
          IN  /\ starts_with(text, lead \o num)
              /\ tail = (IF Formatted.precise THEN FMT_PRECISE_YES ELSE <<>>)
              /\ Contains(text, FMT_PRECISE_YES) <=> Formatted.precise
              /\ ~Contains(text, KEY_PRECISE \o <<"=">> \o NO)
    /\ pc = "value" => ENABLED FormatTag

C8_Witness ==
    /\ pc = "formatted"
    /\ tag \in StartValues
    /\ ~tag.precise
    /\ tag.time_offset.frac # <<>>
    /\ ~Contains(text, KEY_PRECISE)

\* C9: parsing ExtXStart fails with InvalidInput for every input that does
\* not begin with #EXT-X-START: (also without the colon, also the empty
\* string), and no attribute of such an input is examined.
C9_PrefixFirst ==
    (StartParsed /\ ~starts_with(line, ExtXStart_PREFIX))
        => (start_res = InvalidInput /\ examined = 0)

C9_Witness ==
    /\ StartParsed
    /\ head = SubSeq(ExtXStart_PREFIX, 1, Len(ExtXStart_PREFIX) - 1)
    /\ Len(frags) = 1
    /\ IsNamed(frags[1], KEY_TIME_OFFSET)
    /\ ~BadRecognized(frags[1])
    /\ start_res = InvalidInput
    /\ examined = 0

\* C10: when every pair of an EXT-X-START line is well-formed and valid, the
\* time_offset is the value of the last TIME-OFFSET pair and precise is the
\* value of the last PRECISE pair, false if there is none.
C10_LastWins ==
    ( /\ StartParsed
      /\ head = ExtXStart_PREFIX
      /\ AllValid
      /\ Positions(KEY_TIME_OFFSET) # {} )
        => /\ start_res.ok
           /\ Ok(start_res.value.time_offset) =
                 SignedDecimalFloatingPoint_from_str(
                     frags[Last(Positions(KEY_TIME_OFFSET))].value)
           /\ start_res.value.precise =
                 IF Positions(KEY_PRECISE) = {} THEN FALSE
                 ELSE frags[Last(Positions(KEY_PRECISE))].value = YES

C10_Witness ==
    /\ StartParsed
    /\ head = ExtXStart_PREFIX
    /\ Len(frags) = 3
    /\ frags[1] = Pair(KEY_PRECISE, YES)
    /\ IsNamed(frags[2], KEY_TIME_OFFSET)
    /\ frags[3] = Pair(KEY_PRECISE, NO)
    /\ start_res.ok
    /\ ~start_res.value.precise

====
